---- MODULE Spec2Model ----
(***************************************************************************)
(* Model of the multilevel cache of src/code.py: the eviction policies     *)
(* LRUPolicy and LFUPolicy (a tier each) and MultilevelCacheSystem, the    *)
(* orchestrator that holds the ordered list of tiers.                      *)
(*                                                                         *)
(* An OrderedDict / Counter is a sequence of entries in the dictionary's   *)
(* iteration order.  Python indices are 0-based: tier i of the program is  *)
(* levels[i + 1] here.                                                     *)
(***************************************************************************)
EXTENDS Integers, Sequences, FiniteSets, TLC

\* ---------------------------------------------------------------- bounds
NumKeys == 2
NumValues == 2
MaxSize == 1
MaxTiers == 2
MaxFreq == 2
\* a tier on its own is made larger than the tiers of a hierarchy; an LRU tier
\* is driven with two keys more than its largest capacity, an LFU tier with
\* one more
MaxTierSize == 2
NumLRUKeys == 4
NumLFUKeys == 3
NumThreads == 2
\* the keys of the driver's first round: 'a', 'b', 'c' are 1, 2, 3, and the
\* value put with key k, 'value_k', is k
NumDriverKeys == 3
\* the sizes the driver hands to addCacheLevel
DriverLRUSize == 3
DriverLFUSize == 2

Keys == 1..NumKeys
LRUKeys == 1..NumLRUKeys
LFUKeys == 1..NumLFUKeys
Threads == 1..NumThreads
Values == 1..NumValues
DriverKeys == 1..NumDriverKeys
\* capacities handed to addCacheLevel; none is validated, -1 and 0 included
Sizes == -1..MaxSize
\* indices handed to removeCacheLevel: every valid one, negative ones, and
\* len(self.levels) and above
Levels == (-MaxTiers)..MaxTiers
TierSizes == 0..MaxTierSize
\* Python's None: the value of a miss and of a method without return value
None == 0
\* eviction policy names handed to addCacheLevel; "FIFO" is an unsupported one
Policies == {"LRU", "LFU", "FIFO"}
NoError == "none"

VARIABLES
    levels,   \* MultilevelCacheSystem.levels: the sequence of tiers
    last,     \* the call made last: [op, level, key, value]
    ret,      \* the value that call returned (None when it raised)
    err,      \* the exception that call raised, or NoError
    prev,     \* history: what the tier held for the key before the last tier call
    puts,     \* history: the keys put into a tier since it was made, while distinct
    watch,    \* history: a key a get has hit, and the keys not accessed since
    recent,   \* history: per key, the value of the latest put call of the orchestrator
    lock,     \* MultilevelCacheSystem.lock: the thread that holds it, or 0
    thr       \* per thread: the call it is in and its place in that call

vars == <<levels, last, ret, err, prev, puts, watch, recent, lock, thr>>
history == <<prev, puts, watch, recent>>

\* ------------------------------------------------ dictionaries as sequences
KeysOf(d) == {d[i].k : i \in DOMAIN d}

Has(d, k) == \E i \in DOMAIN d : d[i].k = k

IndexOf(d, k) == CHOOSE i \in DOMAIN d : d[i].k = k

Lookup(d, k) == d[IndexOf(d, k)].v

\* del d[k] / d.pop(k) for a key that is present
Delete(d, k) == SelectSeq(d, LAMBDA e : e.k # k)

\* d[k] = v: an existing key keeps its position, a new key goes to the end
SetItem(d, k, v) ==
    IF Has(d, k) THEN [d EXCEPT ![IndexOf(d, k)].v = v]
    ELSE Append(d, [k |-> k, v |-> v])

\* OrderedDict.move_to_end(k)
MoveToEnd(d, k) == Append(Delete(d, k), d[IndexOf(d, k)])

\* Counter: c[k] += 1 (a missing key counts 0)
Incr(c, k) == IF Has(c, k) THEN SetItem(c, k, Lookup(c, k) + 1) ELSE SetItem(c, k, 1)

\* min(c, key=lambda k: c[k]): the first key, in iteration order, of least count
MinKey(c) ==
    c[CHOOSE i \in DOMAIN c :
        /\ \A j \in DOMAIN c : c[i].v <= c[j].v
        /\ \A j \in DOMAIN c : j < i => c[j].v > c[i].v].k

\* ------------------------------------------------------------------ tiers
\* EvictionPolicy.__init__ (and LFUPolicy.__init__): an empty tier
NewTier(kind, size) ==
    [kind |-> kind, size |-> size, cache |-> <<>>, frequency |-> <<>>, lock |-> 0]

Outcome(t, r, e) == [tier |-> t, ret |-> r, err |-> e]

\* LRUPolicy.get without move_to_end
LRUGetNoTouch(t, k) ==
    IF Has(t.cache, k) THEN Outcome(t, Lookup(t.cache, k), NoError)
    ELSE Outcome(t, None, NoError)

LRUGet(t, k) ==
    IF Has(t.cache, k)
    THEN Outcome([t EXCEPT !.cache = MoveToEnd(t.cache, k)], Lookup(t.cache, k), NoError)
    ELSE Outcome(t, None, NoError)

\* LRUPolicy.put with popitem(last=True): the newest entry is evicted
LRUPutPopLast(t, k, v) ==
    IF Has(t.cache, k)
    THEN Outcome([t EXCEPT !.cache = SetItem(MoveToEnd(t.cache, k), k, v)], None, NoError)
    ELSE IF Len(t.cache) >= t.size
         THEN IF t.cache = <<>>
              THEN Outcome(t, None, "KeyError")
              ELSE Outcome([t EXCEPT !.cache =
                               SetItem(SubSeq(t.cache, 1, Len(t.cache) - 1), k, v)],
                           None, NoError)
         ELSE Outcome([t EXCEPT !.cache = SetItem(t.cache, k, v)], None, NoError)

\* LRUPolicy.put that only moves a key it holds to the end and keeps the
\* value stored with it
LRUPutKeepValue(t, k, v) ==
    IF Has(t.cache, k)
    THEN Outcome([t EXCEPT !.cache = MoveToEnd(t.cache, k)], None, NoError)
    ELSE IF Len(t.cache) >= t.size
         THEN IF t.cache = <<>>
              THEN Outcome(t, None, "KeyError")
              ELSE Outcome([t EXCEPT !.cache = SetItem(Tail(t.cache), k, v)], None, NoError)
         ELSE Outcome([t EXCEPT !.cache = SetItem(t.cache, k, v)], None, NoError)

\* LRUPolicy.put whose eviction from an empty store does nothing: the entry
\* is written all the same
LRUPutQuiet(t, k, v) ==
    IF Has(t.cache, k)
    THEN Outcome([t EXCEPT !.cache = SetItem(MoveToEnd(t.cache, k), k, v)], None, NoError)
    ELSE IF Len(t.cache) >= t.size /\ t.cache # <<>>
         THEN Outcome([t EXCEPT !.cache = SetItem(Tail(t.cache), k, v)], None, NoError)
         ELSE Outcome([t EXCEPT !.cache = SetItem(t.cache, k, v)], None, NoError)

LRUPut(t, k, v) ==
    IF Has(t.cache, k)
    THEN Outcome([t EXCEPT !.cache = SetItem(MoveToEnd(t.cache, k), k, v)], None, NoError)
    ELSE IF Len(t.cache) >= t.size
         THEN IF t.cache = <<>>
              THEN Outcome(t, None, "KeyError")   \* popitem(): dictionary is empty
              ELSE Outcome([t EXCEPT !.cache = SetItem(Tail(t.cache), k, v)], None, NoError)
         ELSE Outcome([t EXCEPT !.cache = SetItem(t.cache, k, v)], None, NoError)

\* LFUPolicy.get that counts the access ahead of the lookup: a miss leaves
\* the key in the Counter with count 1
LFUGetCountsMiss(t, k) ==
    IF Has(t.cache, k)
    THEN Outcome([t EXCEPT !.frequency = Incr(t.frequency, k)], Lookup(t.cache, k), NoError)
    ELSE Outcome([t EXCEPT !.frequency =
                     IF Has(t.frequency, k) THEN Incr(t.frequency, k)
                     ELSE SetItem(t.frequency, k, 1)],
                 None, NoError)

LFUGet(t, k) ==
    IF Has(t.cache, k)
    THEN Outcome([t EXCEPT !.frequency = Incr(t.frequency, k)], Lookup(t.cache, k), NoError)
    ELSE Outcome(t, None, NoError)

\* the closing write of LFUPolicy.put with the count set to 1 for a new key only
LFUStoreKeep(t, k, v) ==
    [t EXCEPT !.cache = SetItem(t.cache, k, v),
              !.frequency = IF Has(t.frequency, k) THEN t.frequency
                            ELSE SetItem(t.frequency, k, 1)]

\* lines 68-69: the write that ends every branch of LFUPolicy.put
LFUStore(t, k, v) ==
    [t EXCEPT !.cache = SetItem(t.cache, k, v),
              !.frequency = SetItem(t.frequency, k, 1)]

LFUPut(t, k, v) ==
    IF Has(t.cache, k)
    THEN Outcome(LFUStore([t EXCEPT !.cache = SetItem(t.cache, k, v),
                                    !.frequency = Incr(t.frequency, k)], k, v),
                 None, NoError)
    ELSE IF Len(t.cache) >= t.size
         THEN IF t.frequency = <<>>
              THEN Outcome(t, None, "ValueError")   \* min() of an empty Counter
              ELSE IF ~Has(t.cache, MinKey(t.frequency))
                   THEN Outcome(t, None, "KeyError")   \* cache.pop(lfu_key)
                   ELSE Outcome(LFUStore([t EXCEPT
                                    !.cache = Delete(t.cache, MinKey(t.frequency)),
                                    !.frequency = Delete(t.frequency, MinKey(t.frequency))],
                                    k, v),
                                None, NoError)
         ELSE Outcome(LFUStore(t, k, v), None, NoError)

\* dynamic dispatch on the tier's class
TierGet(t, k) == IF t.kind = "LRU" THEN LRUGet(t, k) ELSE LFUGet(t, k)

TierPut(t, k, v) == IF t.kind = "LRU" THEN LRUPut(t, k, v) ELSE LFUPut(t, k, v)

\* EvictionPolicy.remove, inherited by both policies: it knows self.cache only
TierRemove(t, k) ==
    IF Has(t.cache, k) THEN [t EXCEPT !.cache = Delete(t.cache, k)] ELSE t

\* ----------------------------------------------------------- orchestrator
Result(lv, r, e) == [levels |-> lv, ret |-> r, err |-> e]

\* a loop body of _move_up without the test of get: the entry is written
\* into the tier whether it holds the key or not
MoveUpBodySpread(lv, i, k, v) ==
    LET p == TierPut(TierRemove(lv[i], k), k, v) IN
    Result([lv EXCEPT ![i] = p.tier], None, p.err)

\* _move_up: the loop body for Python index i - 1, and the loop from there on
MoveUpBody(lv, i, k, v) ==
    LET g == TierGet(lv[i], k) IN
    IF g.ret # None
    THEN LET p == TierPut(TierRemove(g.tier, k), k, v) IN
         Result([lv EXCEPT ![i] = p.tier], None, p.err)
    ELSE Result([lv EXCEPT ![i] = g.tier], None, NoError)

RECURSIVE MoveUpFrom(_, _, _, _)
MoveUpFrom(lv, i, k, v) ==
    IF i > Len(lv) THEN Result(lv, None, NoError)
    ELSE LET b == MoveUpBody(lv, i, k, v) IN
         IF b.err # NoError THEN b ELSE MoveUpFrom(b.levels, i + 1, k, v)

\* _move_up that promotes: the entry is also written into tier 0
MoveUpPromote(lv, k, v) ==
    MoveUpFrom([lv EXCEPT ![1] = TierPut(lv[1], k, v).tier], 2, k, v)

\* range(1, len(self.levels))
MoveUp(lv, k, v) == MoveUpFrom(lv, 2, k, v)

\* MultilevelCacheSystem.get: the scan from levels[i] on
RECURSIVE GetFrom(_, _, _)
GetFrom(lv, i, k) ==
    IF i > Len(lv) THEN Result(lv, None, NoError)
    ELSE LET g == TierGet(lv[i], k) IN
         IF g.ret # None
         THEN LET m == MoveUp([lv EXCEPT ![i] = g.tier], k, g.ret) IN
              Result(m.levels, IF m.err = NoError THEN g.ret ELSE None, m.err)
         ELSE GetFrom([lv EXCEPT ![i] = g.tier], i + 1, k)

\* get that scans the tiers from the slowest to the fastest
RECURSIVE GetDownFrom(_, _, _)
GetDownFrom(lv, i, k) ==
    IF i < 1 THEN Result(lv, None, NoError)
    ELSE LET g == TierGet(lv[i], k) IN
         IF g.ret # None
         THEN LET m == MoveUp([lv EXCEPT ![i] = g.tier], k, g.ret) IN
              Result(m.levels, IF m.err = NoError THEN g.ret ELSE None, m.err)
         ELSE GetDownFrom([lv EXCEPT ![i] = g.tier], i - 1, k)

CacheGetReversed(lv, k) == GetDownFrom(lv, Len(lv), k)

CacheGet(lv, k) == GetFrom(lv, 1, k)

\* put that writes into the last tier, self.levels[-1]
CachePutLast(lv, k, v) ==
    IF lv = <<>> THEN Result(lv, None, "IndexError")
    ELSE LET p == TierPut(lv[Len(lv)], k, v) IN
         IF p.err # NoError THEN Result(lv, None, p.err)
         ELSE MoveUp([lv EXCEPT ![Len(lv)] = p.tier], k, v)

\* put that writes the entry into every tier
CachePutAll(lv, k, v) ==
    IF lv = <<>> THEN Result(lv, None, "IndexError")
    ELSE LET p == TierPut(lv[1], k, v) IN
         IF p.err # NoError THEN Result(lv, None, p.err)
         ELSE LET q == [i \in DOMAIN lv |-> TierPut(lv[i], k, v)] IN
              Result([i \in DOMAIN lv |-> q[i].tier], None, NoError)

\* MultilevelCacheSystem.put
CachePut(lv, k, v) ==
    IF lv = <<>> THEN Result(lv, None, "IndexError")   \* self.levels[0]
    ELSE LET p == TierPut(lv[1], k, v) IN
         IF p.err # NoError THEN Result(lv, None, p.err)
         ELSE MoveUp([lv EXCEPT ![1] = p.tier], k, v)

\* addCacheLevel with self.levels.insert(0, ...): the new tier becomes tier 0
CacheAddFront(lv, size, policy) ==
    IF policy \in {"LRU", "LFU"}
    THEN Result(<<NewTier(policy, size)>> \o lv, None, NoError)
    ELSE Result(lv, None, "ValueError")

\* MultilevelCacheSystem.addCacheLevel
CacheAdd(lv, size, policy) ==
    IF policy \in {"LRU", "LFU"}
    THEN Result(Append(lv, NewTier(policy, size)), None, NoError)
    ELSE Result(lv, None, "ValueError")

\* list.pop() without the index: the last tier goes
PopLast(lv, level) == SubSeq(lv, 1, Len(lv) - 1)

\* list.pop(level) for 0 <= level < len
PopAt(lv, level) == SubSeq(lv, 1, level) \o SubSeq(lv, level + 2, Len(lv))

\* removeCacheLevel without its range check: list.pop(level) takes a negative
\* level as an index from the end
CacheRemoveFromEnd(lv, level) ==
    IF 0 <= level /\ level < Len(lv)
    THEN Result(PopAt(lv, level), None, NoError)
    ELSE IF level < 0 /\ -level <= Len(lv)
    THEN Result(PopAt(lv, Len(lv) + level), None, NoError)
    ELSE Result(lv, None, "IndexError")

\* MultilevelCacheSystem.removeCacheLevel
CacheRemove(lv, level) ==
    IF 0 <= level /\ level < Len(lv)
    THEN Result(PopAt(lv, level), None, NoError)
    ELSE Result(lv, None, "IndexError")

\* --------------------------------------------------------------- the model
\* every access count stays within the bound of the model
FreqBounded(lv) ==
    \A i \in DOMAIN lv : \A j \in DOMAIN lv[i].frequency :
        lv[i].frequency[j].v <= MaxFreq

Call(op, level, k, v) == [op |-> op, level |-> level, key |-> k, value |-> v]

\* a call of addCacheLevel(size, eviction_policy), with its arguments
AddCall(size, policy) ==
    [op |-> "addCacheLevel", level |-> None, key |-> None, value |-> None,
     size |-> size, policy |-> policy]

Finish(r, call) ==
    /\ FreqBounded(r.levels)
    /\ levels' = r.levels
    /\ ret' = r.ret
    /\ err' = r.err
    /\ last' = call
    /\ UNCHANGED <<lock, thr>>


NoWatch == [k |-> None, un |-> {}]
NoPuts == [ok |-> TRUE, keys |-> <<>>]
NoPrev == [has |-> FALSE, n |-> 0, len |-> 0]
NoRecent == [k \in Keys |-> None]
InSeq(s, k) == \E i \in DOMAIN s : s[i] = k
Broken == [ok |-> FALSE, keys |-> <<>>]
\* a thread outside every call
Idle == [pc |-> "idle", call |-> Call("none", None, None, None), size |-> 0,
         policy |-> "", i |-> 0, v |-> None, ret |-> None, err |-> NoError,
         snap |-> <<>>, at |-> "", got |-> None]

\* MultilevelCacheSystem.__init__
Init ==
    /\ levels = <<>>
    /\ last = Call("init", None, None, None)
    /\ ret = None
    /\ err = NoError
    /\ prev = NoPrev
    /\ puts = NoPuts
    /\ watch = NoWatch
    /\ recent = NoRecent
    /\ lock = 0
    /\ thr = [t \in Threads |-> Idle]

addCacheLevel(size, policy) ==
    /\ Len(levels) < MaxTiers
    /\ Finish(CacheAdd(levels, size, policy), AddCall(size, policy))
    /\ UNCHANGED history

removeCacheLevel(level) ==
    /\ Finish(CacheRemove(levels, level), Call("removeCacheLevel", level, None, None))
    /\ UNCHANGED history

get(k) ==
    /\ Finish(CacheGet(levels, k), Call("get", None, k, None))
    /\ UNCHANGED history

put(k, v) ==
    /\ Finish(CachePut(levels, k, v), Call("put", None, k, v))
    /\ UNCHANGED history

\* displayCache reads every tier and changes none
displayCache ==
    /\ Finish(Result(levels, None, NoError), Call("displayCache", None, None, None))
    /\ UNCHANGED history

\* a tier used directly, as cache_system.levels[level].get(key)
LevelGet(level, k) ==
    /\ level + 1 \in DOMAIN levels
    /\ LET g == TierGet(levels[level + 1], k) IN
       Finish(Result([levels EXCEPT ![level + 1] = g.tier], g.ret, g.err),
              Call("level.get", level, k, None))

LevelPut(level, k, v) ==
    /\ level + 1 \in DOMAIN levels
    /\ LET p == TierPut(levels[level + 1], k, v) IN
       Finish(Result([levels EXCEPT ![level + 1] = p.tier], p.ret, p.err),
              Call("level.put", level, k, v))

LevelRemove(level, k) ==
    /\ level + 1 \in DOMAIN levels
    /\ Finish(Result([levels EXCEPT ![level + 1] = TierRemove(levels[level + 1], k)],
                     None, NoError),
              Call("level.remove", level, k, None))

levelGet(level, k) == LevelGet(level, k) /\ UNCHANGED history

levelPut(level, k, v) == LevelPut(level, k, v) /\ UNCHANGED history

levelRemove(level, k) == LevelRemove(level, k) /\ UNCHANGED history

Next ==
    \/ \E size \in Sizes, policy \in Policies : addCacheLevel(size, policy)
    \/ \E level \in Levels : removeCacheLevel(level)
    \/ \E k \in Keys : get(k)
    \/ \E k \in Keys, v \in Values : put(k, v)
    \/ displayCache
    \/ \E level \in 0..(MaxTiers - 1), k \in Keys : levelGet(level, k)
    \/ \E level \in 0..(MaxTiers - 1), k \in Keys, v \in Values : levelPut(level, k, v)
    \/ \E level \in 0..(MaxTiers - 1), k \in Keys : levelRemove(level, k)

\* the orchestrator's operations, and its tiers used directly
Spec == Init /\ [][Next]_vars

\* the hierarchies one public call away from lv
PublicSteps(lv) ==
    {r.levels : r \in
        {CacheAdd(lv, size, policy) : size \in Sizes, policy \in Policies}
        \cup {CacheRemove(lv, level) : level \in Levels}
        \cup {CacheGet(lv, k) : k \in Keys}
        \cup {CachePut(lv, k, v) : k \in Keys, v \in Values}}

\* the hierarchies that sequences of public calls lead to from those of S
RECURSIVE PublicReach(_)
PublicReach(S) ==
    LET T == S \cup {n \in UNION {PublicSteps(lv) : lv \in S} :
                        Len(n) <= MaxTiers /\ FreqBounded(n)}
    IN IF T = S THEN S ELSE PublicReach(T)

\* put, with the value kept as the latest one put for the key
putRecorded(k, v) ==
    /\ Finish(CachePut(levels, k, v), Call("put", None, k, v))
    /\ recent' = [recent EXCEPT ![k] = v]
    /\ UNCHANGED <<prev, puts, watch>>

PublicNext ==
    \/ \E size \in Sizes, policy \in Policies : addCacheLevel(size, policy)
    \/ \E level \in Levels : removeCacheLevel(level)
    \/ \E k \in Keys : get(k)
    \/ \E k \in Keys, v \in Values : putRecorded(k, v)
    \/ displayCache

\* the public methods of MultilevelCacheSystem alone, from the cache that
\* __init__ makes: no tier is reached but through the orchestrator
SpecPublic == Init /\ [][PublicNext]_vars

\* ------------------------------------------------------------ the driver
\* the cache of the sample test cases once both addCacheLevel calls are made
DriverLevels ==
    CacheAdd(CacheAdd(<<>>, DriverLRUSize, "LRU").levels, DriverLFUSize, "LFU").levels

DriverInit ==
    /\ levels = DriverLevels
    /\ last = AddCall(DriverLFUSize, "LFU")
    /\ ret = None
    /\ err = NoError
    /\ prev = NoPrev
    /\ puts = NoPuts
    /\ watch = NoWatch
    /\ recent = NoRecent
    /\ lock = 0
    /\ thr = [t \in Threads |-> Idle]

\* cache_system.put(k, value_k); puts keeps the keys put so far, in order,
\* as long as no key was put twice
driverPut(k) ==
    /\ Finish(CachePut(levels, k, k), Call("put", None, k, k))
    /\ puts' = IF puts.ok /\ ~InSeq(puts.keys, k)
               THEN [puts EXCEPT !.keys = Append(@, k)]
               ELSE Broken
    /\ UNCHANGED <<prev, watch, recent>>

\* cache_system.get(k)
driverGet(k) ==
    /\ Finish(CacheGet(levels, k), Call("get", None, k, None))
    /\ UNCHANGED history

DriverNext ==
    \/ \E k \in DriverKeys : driverPut(k)
    \/ \E k \in DriverKeys : driverGet(k)

\* the driver's cache with the driver's keys put and got in any order
SpecDriver == DriverInit /\ [][DriverNext]_vars

\* ------------------------------------------------------- a tier on its own
\* what the tier holds for k ahead of a call
Before(t, k) ==
    [has |-> Has(t.cache, k),
     n |-> IF Has(t.frequency, k) THEN Lookup(t.frequency, k) ELSE 0,
     len |-> Len(t.cache)]

\* one LRUPolicy(size), every call on it recorded in puts and watch
LRUInit ==
    /\ \E size \in TierSizes : levels = <<NewTier("LRU", size)>>
    /\ last = Call("init", None, None, None)
    /\ ret = None
    /\ err = NoError
    /\ prev = NoPrev
    /\ puts = NoPuts
    /\ watch = NoWatch
    /\ recent = NoRecent
    /\ lock = 0
    /\ thr = [t \in Threads |-> Idle]

\* a hit starts the watch of k, or counts as an access while another key is watched
lruGet(k) ==
    /\ LevelGet(0, k)
    /\ puts' = Broken
    /\ IF ~Has(levels[1].cache, k) THEN watch' = watch
       ELSE \/ watch' = [k |-> k, un |-> KeysOf(levels[1].cache) \ {k}]
            \/ /\ watch.k \notin {None, k}
               /\ watch' = [watch EXCEPT !.un = @ \ {k}]
    /\ UNCHANGED <<prev, recent>>

lruPut(k, v) ==
    /\ LevelPut(0, k, v)
    /\ puts' = IF err' = NoError /\ puts.ok /\ ~InSeq(puts.keys, k)
               THEN [puts EXCEPT !.keys = Append(@, k)]
               ELSE Broken
    /\ watch' = IF err' = NoError THEN [watch EXCEPT !.un = @ \ {k}] ELSE watch
    /\ UNCHANGED <<prev, recent>>

lruRemove(k) ==
    /\ LevelRemove(0, k)
    /\ puts' = Broken
    /\ watch' = IF k = watch.k THEN NoWatch ELSE [watch EXCEPT !.un = @ \ {k}]
    /\ UNCHANGED <<prev, recent>>

LRUNext ==
    \/ \E k \in LRUKeys : lruGet(k)
    \/ \E k \in LRUKeys, v \in Values : lruPut(k, v)
    \/ \E k \in LRUKeys : lruRemove(k)

SpecLRU == LRUInit /\ [][LRUNext]_vars

\* one LFUPolicy(size), with what it held for the key ahead of each call
LFUInit ==
    /\ \E size \in TierSizes : levels = <<NewTier("LFU", size)>>
    /\ last = Call("init", None, None, None)
    /\ ret = None
    /\ err = NoError
    /\ prev = NoPrev
    /\ puts = NoPuts
    /\ watch = NoWatch
    /\ recent = NoRecent
    /\ lock = 0
    /\ thr = [t \in Threads |-> Idle]

lfuGet(k) ==
    /\ LevelGet(0, k)
    /\ prev' = Before(levels[1], k)
    /\ UNCHANGED <<puts, watch, recent>>

lfuPut(k, v) ==
    /\ LevelPut(0, k, v)
    /\ prev' = Before(levels[1], k)
    /\ UNCHANGED <<puts, watch, recent>>

lfuRemove(k) ==
    /\ LevelRemove(0, k)
    /\ prev' = Before(levels[1], k)
    /\ UNCHANGED <<puts, watch, recent>>

LFUNext ==
    \/ \E k \in LFUKeys : lfuGet(k)
    \/ \E k \in LFUKeys, v \in Values : lfuPut(k, v)
    \/ \E k \in LFUKeys : lfuRemove(k)

SpecLFU == LFUInit /\ [][LFUNext]_vars

\* --------------------------------------------------- threads and the lock
\* a lock that never blocks
CanAcquireAlways(l) == TRUE

\* threading.Lock.acquire of `with self.lock:` returns when nobody holds it
CanAcquire(l) == l = 0

\* a lock taken by acquire() and given back by release() on the normal path
\* only: a call that raises leaves it with its holder
AfterWithLeak(t, e) == IF e = NoError THEN 0 ELSE t

\* the holder of a lock once thread t leaves its `with` block with outcome e:
\* __exit__ releases it on return and on exception alike
AfterWith(t, e) == 0

\* a hierarchy of two tiers whose slower tier was loaded directly, so that the
\* refresh pass of get and put has an entry to rewrite
Loaded ==
    LET a == CacheAdd(CacheAdd(<<>>, 1, "LRU").levels, MaxTierSize, "LFU").levels
    IN [a EXCEPT ![2] = TierPut(a[2], 1, 1).tier]

ConcInit ==
    /\ levels \in {<<>>, Loaded}
    /\ last = Call("init", None, None, None)
    /\ ret = None
    /\ err = NoError
    /\ prev = NoPrev
    /\ puts = NoPuts
    /\ watch = NoWatch
    /\ recent = NoRecent
    /\ lock = 0
    /\ thr = [t \in Threads |-> Idle]

\* the calls a thread makes on the one MultilevelCacheSystem
Calls ==
    {Call("get", None, k, None) : k \in Keys}
    \cup {Call("put", None, k, v) : k \in Keys, v \in Values}
    \cup {Call("removeCacheLevel", l, None, None) : l \in 0..(MaxTiers - 1)}
    \cup {Call("addCacheLevel", None, None, None), Call("displayCache", None, None, None)}

\* the whole call as one step, on the hierarchy lv
Atomic(c, size, policy, lv) ==
    CASE c.op = "get" -> CacheGet(lv, c.key)
      [] c.op = "put" -> CachePut(lv, c.key, c.value)
      [] c.op = "addCacheLevel" -> CacheAdd(lv, size, policy)
      [] c.op = "removeCacheLevel" -> CacheRemove(lv, c.level)
      [] OTHER -> Result(lv, None, NoError)

\* the thread is inside a `with self.lock:` block of the orchestrator
InCritical(t) == thr[t].pc \in {"body", "scan", "move_up", "release"}

Step(t, pc, lv, r, e) ==
    /\ FreqBounded(lv)
    /\ levels' = lv
    /\ thr' = [thr EXCEPT ![t].pc = pc, ![t].ret = r, ![t].err = e]
    /\ UNCHANGED <<last, ret, err, history, lock>>

\* a thread calls a public method and arrives at `with self.lock:`
invoke(t, c, size, policy) ==
    /\ thr[t].pc = "idle"
    /\ c.op = "addCacheLevel" =>
           Len(levels) + Cardinality({o \in Threads : thr[o].call.op = "addCacheLevel"})
               < MaxTiers
    /\ thr' = [thr EXCEPT ![t] = [Idle EXCEPT !.pc = "acquire", !.call = c,
                                              !.size = size, !.policy = policy]]
    /\ UNCHANGED <<levels, last, ret, err, history, lock>>

\* lines 78, 88, 95, 105, 117: with self.lock
acquire(t) ==
    /\ thr[t].pc = "acquire"
    /\ CanAcquire(lock)
    /\ lock' = t
    /\ thr' = [thr EXCEPT ![t].pc = IF thr[t].call.op = "get" THEN "scan" ELSE "body",
                          ![t].i = 1, ![t].snap = levels]
    /\ UNCHANGED <<levels, last, ret, err, history>>

\* the body of addCacheLevel, removeCacheLevel and displayCache
body(t) ==
    /\ thr[t].pc = "body"
    /\ thr[t].call.op \in {"addCacheLevel", "removeCacheLevel", "displayCache"}
    /\ LET r == Atomic(thr[t].call, thr[t].size, thr[t].policy, levels)
       IN Step(t, "release", r.levels, r.ret, r.err)

\* line 107: self.levels[0].put(key, value)
putWrite(t) ==
    /\ thr[t].pc = "body"
    /\ thr[t].call.op = "put"
    /\ IF levels = <<>> THEN Step(t, "release", levels, None, "IndexError")
       ELSE LET p == TierPut(levels[1], thr[t].call.key, thr[t].call.value) IN
            IF p.err # NoError THEN Step(t, "release", levels, None, p.err)
            ELSE /\ FreqBounded([levels EXCEPT ![1] = p.tier])
                 /\ levels' = [levels EXCEPT ![1] = p.tier]
                 /\ thr' = [thr EXCEPT ![t].pc = "move_up", ![t].i = 2,
                                       ![t].v = thr[t].call.value]
                 /\ UNCHANGED <<last, ret, err, history, lock>>

\* lines 96-98 and 102: one turn of the scan of get
getScan(t) ==
    /\ thr[t].pc = "scan"
    /\ IF thr[t].i > Len(levels) THEN Step(t, "release", levels, None, NoError)
       ELSE LET g == TierGet(levels[thr[t].i], thr[t].call.key)
                lv == [levels EXCEPT ![thr[t].i] = g.tier]
            IN /\ FreqBounded(lv)
               /\ levels' = lv
               /\ thr' = IF g.ret # None
                         THEN [thr EXCEPT ![t].pc = "move_up", ![t].i = 2,
                                          ![t].v = g.ret, ![t].ret = g.ret]
                         ELSE [thr EXCEPT ![t].i = @ + 1]
               /\ UNCHANGED <<last, ret, err, history, lock>>

\* lines 111-114: one turn of the loop of _move_up
moveUp(t) ==
    /\ thr[t].pc = "move_up"
    /\ IF thr[t].i > Len(levels) THEN Step(t, "release", levels, thr[t].ret, NoError)
       ELSE LET b == MoveUpBody(levels, thr[t].i, thr[t].call.key, thr[t].v) IN
            IF b.err # NoError THEN Step(t, "release", b.levels, None, b.err)
            ELSE /\ FreqBounded(b.levels)
                 /\ levels' = b.levels
                 /\ thr' = [thr EXCEPT ![t].i = @ + 1]
                 /\ UNCHANGED <<last, ret, err, history, lock>>

\* the end of the with block, reached by return and by exception alike
release(t) ==
    /\ thr[t].pc = "release"
    /\ lock' = AfterWith(t, thr[t].err)
    /\ last' = thr[t].call
    /\ ret' = thr[t].ret
    /\ err' = thr[t].err
    /\ thr' = [thr EXCEPT ![t] = Idle]
    /\ UNCHANGED <<levels, history>>

ConcNext ==
    \E t \in Threads :
        \/ \E c \in Calls : c.op # "addCacheLevel" /\ invoke(t, c, 0, "")
        \/ \E size \in Sizes, policy \in Policies :
               invoke(t, Call("addCacheLevel", None, None, None), size, policy)
        \/ acquire(t)
        \/ body(t)
        \/ putWrite(t)
        \/ getScan(t)
        \/ moveUp(t)
        \/ release(t)

SpecConc == ConcInit /\ [][ConcNext]_vars

\* ------------------------------------- threads, with the locks of the tiers
\* a get counts an access: it is called only while the counts leave room for
\* it and for the gets under way
RoomToCount(lv) ==
    \A i \in DOMAIN lv : \A j \in DOMAIN lv[i].frequency :
        lv[i].frequency[j].v
            + Cardinality({o \in Threads : thr[o].pc # "idle" /\ thr[o].call.op = "get"})
            < MaxFreq

stepInvoke(t, c, size, policy) ==
    /\ c.op = "get" => RoomToCount(levels)
    /\ invoke(t, c, size, policy)

\* a step of thread t inside its call: the tiers and the thread change
Goto(t, lv, th) ==
    /\ levels' = lv
    /\ thr' = [thr EXCEPT ![t] = th]
    /\ UNCHANGED <<last, ret, err, history, lock>>

\* the call raises e or returns r: the `with self.lock:` block is left
Leave(t, r, e) == Goto(t, levels, [thr[t] EXCEPT !.pc = "release", !.ret = r, !.err = e])

\* thread t calls get or put of tier i, from place at of the orchestrator
CallTier(t, i, at) == Goto(t, levels, [thr[t] EXCEPT !.pc = "tier_lock", !.i = i, !.at = at])

\* lines 78, 88, 95, 105, 117: with self.lock
stepAcquire(t) ==
    /\ thr[t].pc = "acquire"
    /\ CanAcquire(lock)
    /\ lock' = t
    /\ thr' = [thr EXCEPT ![t].pc = CASE thr[t].call.op = "get" -> "scan"
                                      [] thr[t].call.op = "put" -> "write"
                                      [] OTHER -> "body",
                          ![t].i = 1, ![t].v = thr[t].call.value]
    /\ UNCHANGED <<levels, last, ret, err, history>>

\* line 107: self.levels[0], then its put
stepWrite(t) ==
    /\ thr[t].pc = "write"
    /\ IF levels = <<>> THEN Leave(t, None, "IndexError") ELSE CallTier(t, 1, "write")

\* line 96: the loop of get over the tiers
stepScan(t) ==
    /\ thr[t].pc = "scan"
    /\ IF thr[t].i > Len(levels) THEN Leave(t, None, NoError)
       ELSE CallTier(t, thr[t].i, "scan")

\* line 111: the loop of _move_up; the lock of the orchestrator is held and
\* not taken again
stepMoveUp(t) ==
    /\ thr[t].pc = "move_up"
    /\ IF thr[t].i > Len(levels) THEN Leave(t, thr[t].ret, NoError)
       ELSE CallTier(t, thr[t].i, "up_get")

\* line 113: self.levels[i].remove(key), which takes no lock
stepRemove(t) ==
    /\ thr[t].pc = "up_remove"
    /\ Goto(t, [levels EXCEPT ![thr[t].i] = TierRemove(@, thr[t].call.key)],
            [thr[t] EXCEPT !.pc = "tier_lock", !.at = "up_put"])

\* lines 28, 36, 52, 59: with self.lock of the tier
tierEnter(t) ==
    /\ thr[t].pc = "tier_lock"
    /\ CanAcquire(levels[thr[t].i].lock)
    /\ Goto(t, [levels EXCEPT ![thr[t].i].lock = t], [thr[t] EXCEPT !.pc = "tier_body"])

\* the body of the tier's get or put
tierBody(t) ==
    /\ thr[t].pc = "tier_body"
    /\ LET o == IF thr[t].at \in {"scan", "up_get"}
                THEN TierGet(levels[thr[t].i], thr[t].call.key)
                ELSE TierPut(levels[thr[t].i], thr[t].call.key, thr[t].v)
       IN Goto(t, [levels EXCEPT ![thr[t].i] = o.tier],
               [thr[t] EXCEPT !.pc = "tier_unlock", !.got = o.ret, !.err = o.err])

\* the end of the tier's with block, and the return to the orchestrator
tierExit(t) ==
    /\ thr[t].pc = "tier_unlock"
    /\ LET me == thr[t]
           lv == [levels EXCEPT ![me.i].lock = AfterWith(t, me.err)]
       IN Goto(t, lv,
               CASE me.err # NoError ->
                      [me EXCEPT !.pc = "release", !.ret = None]
                 [] me.err = NoError /\ me.at = "write" ->
                      [me EXCEPT !.pc = "move_up", !.i = 2]
                 [] me.err = NoError /\ me.at = "scan" /\ me.got # None ->
                      [me EXCEPT !.pc = "move_up", !.i = 2, !.v = me.got, !.ret = me.got]
                 [] me.err = NoError /\ me.at = "scan" /\ me.got = None ->
                      [me EXCEPT !.pc = "scan", !.i = @ + 1]
                 [] me.err = NoError /\ me.at = "up_get" /\ me.got # None ->
                      [me EXCEPT !.pc = "up_remove"]
                 [] OTHER ->
                      [me EXCEPT !.pc = "move_up", !.i = @ + 1])

\* the end of the orchestrator's with block; what the call returned or
\* raised goes to the caller and is kept nowhere
stepRelease(t) ==
    /\ thr[t].pc = "release"
    /\ lock' = AfterWith(t, thr[t].err)
    /\ thr' = [thr EXCEPT ![t] = Idle]
    /\ UNCHANGED <<levels, last, ret, err, history>>

\* the steps of thread t between taking the orchestrator's lock and leaving
\* the call
Run(t) ==
    \/ body(t)
    \/ stepWrite(t)
    \/ stepScan(t)
    \/ stepMoveUp(t)
    \/ stepRemove(t)
    \/ tierEnter(t)
    \/ tierBody(t)
    \/ tierExit(t)
    \/ stepRelease(t)

LiveNext ==
    \E t \in Threads :
        \/ \E c \in Calls : c.op # "addCacheLevel" /\ stepInvoke(t, c, 0, "")
        \/ \E size \in Sizes, policy \in Policies :
               stepInvoke(t, Call("addCacheLevel", None, None, None), size, policy)
        \/ stepAcquire(t)
        \/ Run(t)

\* a thread inside a call goes on running; a thread that waits for the
\* orchestrator's lock gets it if the lock is free again and again
Fairness ==
    \A t \in Threads : WF_vars(Run(t)) /\ SF_vars(stepAcquire(t))

SpecLive == ConcInit /\ [][LiveNext]_vars /\ Fairness

TypeOK ==
    /\ Len(levels) <= MaxTiers
    /\ ret \in {None} \cup Values \cup DriverKeys
    /\ FreqBounded(levels)

\* ------------------------------------------------------------- properties
Tier0 == levels[1]

HeldBy(lv, i, k) == Has(lv[i].cache, k)

\* C1: after MultilevelCacheSystem.put(key, value) has returned, tier 0 holds
\* key mapped to value, whatever the tiers held before.
C1_PutLandsInTier0 ==
    (last.op = "put" /\ err = NoError) =>
        /\ levels # <<>>
        /\ HeldBy(levels, 1, last.key)
        /\ Lookup(Tier0.cache, last.key) = last.value

\* a put has returned while the next tier holds the key too
C1_Witness ==
    /\ last.op = "put" /\ err = NoError
    /\ Len(levels) = 2
    /\ HeldBy(levels, 1, last.key) /\ HeldBy(levels, 2, last.key)
    /\ Len(Tier0.cache) = Tier0.size

\* the value of k in the tier of least index that holds k; None when none does
FirstHeld(lv, k) ==
    IF \A i \in DOMAIN lv : ~HeldBy(lv, i, k) THEN None
    ELSE LET i == CHOOSE a \in DOMAIN lv :
                      HeldBy(lv, a, k) /\ \A b \in DOMAIN lv : HeldBy(lv, b, k) => a <= b
         IN Lookup(lv[i].cache, k)

\* C2: get(key) returns the value of key in the lowest-index tier that holds
\* it, and None exactly when no tier holds key.
C2_GetReturnsFirstHeld ==
    [][last'.op = "get" =>
         /\ err' = NoError
         /\ ret' = FirstHeld(levels, last'.key)
         /\ (ret' = None <=> \A i \in DOMAIN levels : ~HeldBy(levels, i, last'.key))]_vars

\* a get has hit tier 0 while tier 1 holds the key too
C2_Witness ==
    /\ last.op = "get" /\ ret # None
    /\ Len(levels) = 2
    /\ HeldBy(levels, 1, last.key) /\ HeldBy(levels, 2, last.key)
    /\ ret = Lookup(Tier0.cache, last.key)

\* k is held by tier i (1-based) and by no other tier
OnlyIn(lv, i, k) ==
    /\ i \in DOMAIN lv
    /\ \A j \in DOMAIN lv : HeldBy(lv, j, k) <=> j = i

C9_RemoveShiftsAddAppends ==
    [][/\ (last'.op = "removeCacheLevel" /\ 0 <= last'.level /\ last'.level < Len(levels)) =>
            /\ err' = NoError
            /\ Len(levels') = Len(levels) - 1
            /\ \A j \in 1..last'.level : levels'[j] = levels[j]
            /\ \A j \in (last'.level + 2)..Len(levels) : levels'[j - 1] = levels[j]
       /\ (last'.op = "addCacheLevel" /\ err' = NoError) =>
            /\ Len(levels') = Len(levels) + 1
            /\ levels'[Len(levels')].cache = <<>>
            /\ \A j \in 1..Len(levels) : levels'[j] = levels[j]]_vars

\* tier 0 has been removed and the tier that was at index 1, with its entries,
\* is now tier 0
C9_Witness ==
    /\ last.op = "removeCacheLevel" /\ last.level = 0 /\ err = NoError
    /\ Len(levels) = 1
    /\ Tier0.cache # <<>>

\* the entries of new are those of old less exactly one, plus key k
EvictsOne(old, new, k) ==
    /\ Cardinality(KeysOf(old) \ KeysOf(new)) = 1
    /\ KeysOf(new) \ KeysOf(old) = {k}

\* the tier a put call writes: tier 0 for the orchestrator's put
PutTarget(call) == IF call.op = "put" THEN 1 ELSE call.level + 1

\* C4: a tier made with a positive capacity N never holds more than N
\* entries, and a put of a new key into a full tier evicts exactly one of the
\* entries it holds.
C4_BoundedAndEvictsOne ==
    [][/\ \A i \in DOMAIN levels' :
            levels'[i].size > 0 => Len(levels'[i].cache) <= levels'[i].size
       /\ \A i \in DOMAIN levels :
            (/\ last'.op \in {"put", "level.put"}
             /\ PutTarget(last') = i
             /\ levels[i].size > 0
             /\ Len(levels[i].cache) >= levels[i].size
             /\ ~HeldBy(levels, i, last'.key))
            => EvictsOne(levels[i].cache, levels'[i].cache, last'.key)]_vars

\* the keys of a dictionary in its iteration order
KeySeq(d) == [i \in DOMAIN d |-> d[i].k]

\* C5: N + 1 distinct keys put into a new LRU tier of capacity N, with no get
\* in between, evict the key put first and no other: the tier holds the last
\* N keys put.
C5_FirstInsertedEvicted ==
    (/\ Tier0.kind = "LRU" /\ Tier0.size > 0
     /\ puts.ok /\ Len(puts.keys) = Tier0.size + 1)
    => KeySeq(Tier0.cache) = Tail(puts.keys)

\* an LRU tier of capacity 2 or more has taken two keys more than its capacity
C5_Witness ==
    /\ Tier0.kind = "LRU" /\ Tier0.size > 1
    /\ puts.ok /\ Len(puts.keys) = Tier0.size + 1
    /\ Len(Tier0.cache) = Tier0.size

\* C6: in an LRU tier a get that hits k makes k the most recently used entry:
\* k is evicted only after every other key that was held then and has not
\* been accessed since.
C6_GetMakesMostRecent ==
    Tier0.kind = "LRU" =>
        /\ (last.op = "level.get" /\ ret # None) =>
               Tier0.cache[Len(Tier0.cache)].k = last.key
        /\ (watch.k # None /\ ~Has(Tier0.cache, watch.k)) =>
               watch.un \cap KeysOf(Tier0.cache) = {}

\* the key a get had hit has been evicted, after a key that was held at the
\* time of the get and was not accessed since
C6_Witness ==
    /\ Tier0.kind = "LRU"
    /\ watch.k # None /\ ~Has(Tier0.cache, watch.k)
    /\ watch.un # {}

\* the held keys of least access count, and the one of them inserted first
LeastUsed(t) ==
    {k \in KeysOf(t.cache) :
        \A o \in KeysOf(t.cache) : Lookup(t.frequency, k) <= Lookup(t.frequency, o)}

Victim(t) ==
    CHOOSE k \in LeastUsed(t) :
        \A o \in LeastUsed(t) : IndexOf(t.cache, k) <= IndexOf(t.cache, o)

\* C7: a put of a new key into a full LFU tier evicts a held key of least
\* access count, the earliest-inserted one of those that tie, after any
\* sequence of get, put and remove on the tier.
C7_EvictsLeastFrequent ==
    [][(/\ last'.op = "level.put"
        /\ Tier0.kind = "LFU" /\ Tier0.size > 0
        /\ Len(Tier0.cache) >= Tier0.size
        /\ ~Has(Tier0.cache, last'.key))
       => /\ err' = NoError
          /\ KeysOf(Tier0.cache) \ KeysOf(Tier0'.cache) = {Victim(Tier0)}
          /\ Has(Tier0'.cache, last'.key)]_vars

\* C8: a put on an LFU tier that returns leaves the key's access count at 1,
\* also when the key was held with a higher count.
C8_PutResetsCount ==
    (last.op = "level.put" /\ err = NoError /\ Tier0.kind = "LFU") =>
        /\ Has(Tier0.frequency, last.key)
        /\ Lookup(Tier0.frequency, last.key) = 1

\* a put has overwritten a key whose count was above 1
C8_Witness ==
    /\ last.op = "level.put" /\ err = NoError /\ Tier0.kind = "LFU"
    /\ prev.has /\ prev.n > 1
    /\ Lookup(Tier0.frequency, last.key) = 1

\* C10: with several threads calling the public methods of one cache, at most
\* one of them is inside its critical section, which it holds from the scan
\* or the tier-0 write to the end of the refresh pass; so every call takes
\* effect as one step on the hierarchy it found when it took the lock.
C10_OneAtATime ==
    /\ \A t, o \in Threads : (InCritical(t) /\ InCritical(o)) => t = o
    /\ \A t \in Threads : InCritical(t) => lock = t
    /\ \A t \in Threads :
           thr[t].pc = "release" =>
               LET a == Atomic(thr[t].call, thr[t].size, thr[t].policy, thr[t].snap)
               IN /\ levels = a.levels
                  /\ thr[t].ret = a.ret
                  /\ thr[t].err = a.err

\* a put is in its refresh pass, past a tier that holds the key, while the
\* other thread waits for the lock
C10_Witness ==
    \E t, o \in Threads :
        /\ thr[t].pc = "move_up" /\ thr[t].call.op = "put" /\ thr[t].i = 3
        /\ Len(levels) = 2 /\ HeldBy(levels, 2, thr[t].call.key)
        /\ thr[o].pc = "acquire"

\* C11: addCacheLevel with a policy that is neither "LRU" nor "LFU" raises
\* ValueError, and removeCacheLevel with a level below 0 or at or above the
\* number of tiers raises IndexError; either way the list of tiers and what
\* every tier holds stay as they were.
C11_BadCallsFailUnchanged ==
    [][/\ (last'.op = "addCacheLevel" /\ last'.policy \notin {"LRU", "LFU"}) =>
            /\ err' = "ValueError"
            /\ levels' = levels
       /\ (/\ last'.op = "removeCacheLevel"
           /\ (last'.level < 0 \/ last'.level >= Len(levels))) =>
            /\ err' = "IndexError"
            /\ levels' = levels]_vars

\* removeCacheLevel(-1) has raised on a hierarchy of two tiers that hold entries
C11_Witness ==
    /\ last.op = "removeCacheLevel" /\ last.level = -1 /\ err = "IndexError"
    /\ Len(levels) = 2
    /\ levels[1].cache # <<>> /\ levels[2].cache # <<>>

\* C12: MultilevelCacheSystem.put raises, and leaves every tier as it was,
\* when there is no tier or when tier 0 was made with a capacity of 0 or less;
\* it never returns normally then, and a tier of capacity 0 or less never
\* holds an entry.
C12_PutFailsWithoutRoom ==
    [][/\ (last'.op = "put" /\ (levels = <<>> \/ levels[1].size <= 0)) =>
            /\ err' # NoError
            /\ ret' = None
            /\ levels' = levels
       /\ \A i \in DOMAIN levels' :
            levels'[i].size <= 0 => levels'[i].cache = <<>>]_vars

\* put has raised on a tier 0 of capacity below 0 that is followed by a tier
\* which holds the key
C12_Witness ==
    /\ last.op = "put" /\ err # NoError
    /\ Len(levels) = 2
    /\ levels[1].size < 0
    /\ HeldBy(levels, 2, last.key)

\* C13: MultilevelCacheSystem.get of a key that no tier holds returns None
\* and changes nothing: every tier keeps its keys, values, order and access
\* counts.
C13_MissChangesNothing ==
    [][(/\ last'.op = "get"
        /\ \A i \in DOMAIN levels : ~HeldBy(levels, i, last'.key))
       => /\ ret' = None
          /\ err' = NoError
          /\ levels' = levels]_vars

\* a get has missed in a hierarchy of an LRU and an LFU tier that both hold
\* another key
C13_Witness ==
    /\ last.op = "get" /\ ret = None /\ err = NoError
    /\ Len(levels) = 2
    /\ {levels[1].kind, levels[2].kind} = {"LRU", "LFU"}
    /\ levels[1].cache # <<>> /\ levels[2].cache # <<>>
    /\ \A i \in DOMAIN levels : ~HeldBy(levels, i, last.key)

Holders(lv, k) == {i \in DOMAIN lv : HeldBy(lv, i, k)}

C18_GetReturnsLatestPut ==
    (last.op = "get" /\ ret # None) => ret = recent[last.key]

\* a get has returned the second value put for the key, with another tier
\* behind tier 0
C18_Witness ==
    /\ last.op = "get" /\ ret = NumValues /\ ret = recent[last.key]
    /\ Len(levels) = 2
    /\ levels[1].kind = "LFU"
    /\ Lookup(levels[1].frequency, last.key) = MaxFreq

\* C15: in the driver's cache, an LRU tier of size 3 ahead of an LFU tier of
\* size 2, once 'a', 'b' and 'c' have been put in that order the third put
\* has evicted 'a' from the LRU tier: get('a') returns None, get('b') and
\* get('c') return their values.
C15_ThirdPutEvictsA ==
    (puts.ok /\ puts.keys = <<1, 2, 3>>) =>
        /\ ~HeldBy(levels, 1, 1)
        /\ last.op = "get" => ret = (IF last.key = 1 THEN None ELSE last.key)

\* C19: in an LFU tier, after any sequence of get, put and remove on it, the
\* keys that have an access count are the keys in the value store, so the key
\* an eviction picks from the counts is one the store holds.
C19_CountsMatchStore ==
    Tier0.kind = "LFU" =>
        /\ KeysOf(Tier0.frequency) = KeysOf(Tier0.cache)
        /\ Tier0.frequency # <<>> => Has(Tier0.cache, MinKey(Tier0.frequency))

\* the locks thread t holds: the orchestrator's and those of the tiers
HoldsAny(t) == lock = t \/ \E i \in DOMAIN levels : levels[i].lock = t

====
